---- MODULE Spec2Model ----
(***************************************************************************)
(* Model of pspipe_utils/simulation.py:                                    *)
(*   get_noise_matrix_spin0and2, get_foreground_matrix, generate_noise_alms *)
(*                                                                         *)
(* Numbers.  Every tensor entry is a rational multiple of pi, or one of    *)
(* the two non-finite results a numpy division by zero produces (x/0 = inf *)
(* for x > 0, 0/0 = nan; numpy warns and carries on).  A value is the      *)
(* record [kind, n, d]: kind "fin" stands for (n/d)*pi with n/d in lowest  *)
(* terms.  Arithmetic is exact (no float64 rounding).                      *)
(*                                                                         *)
(* Indices are 0-based as in the source; file columns are TLA+ sequences,  *)
(* so element k of a column (0-based) is column[k+1].                      *)
(***************************************************************************)
EXTENDS Integers, Sequences, FiniteSets, TLC

VARIABLES call,          \* the function being called: "noise", "fg", "alms"
          pc,            \* position of the running call: "pairs", "sym", "splits", "done", "raised"
          arrays,        \* get_noise_matrix_spin0and2: the list of array names
          lmax,          \* all three functions
          nsplits,       \* get_noise_matrix_spin0and2
          noise_dir,     \* content of the noise directory: [rows, l0, seed]
          all_freqs,     \* get_foreground_matrix: the list of frequency names
          fg_dir,        \* content of the foreground directory: [rows, l0, seed]
          c1, c2,        \* loop indices of the pair loops
          l,             \* the local l: [bound, v]
          nl_array_t, nl_array_pol, fl_array,
          i,             \* index of the symmetrisation loop
          n_splits, ncomp,   \* generate_noise_alms
          k,             \* split loop index
          nlms,          \* the dictionary being built: key -> index of a draw
          draws          \* log of the calls of curvedsky.rand_alm: the ps argument of each

vars == <<call, pc, arrays, lmax, nsplits, noise_dir, all_freqs, fg_dir, c1, c2, l,
          nl_array_t, nl_array_pol, fl_array, i, n_splits, ncomp, k, nlms, draws>>

\* ------------------------------------------------------------------ bounds
MaxArrays == 2
MaxLmax == 3
MaxRows == 4
MaxSplits == 2
MaxSeed == 2
MaxL0 == 2
MaxNcomp == 4

\* ------------------------------------------------------------------ values
Min(a, b) == IF a < b THEN a ELSE b
Max(a, b) == IF a > b THEN a ELSE b

RECURSIVE GCD(_, _)
GCD(a, b) == IF b = 0 THEN a ELSE GCD(b, a % b)

Fin(n, d) == [kind |-> "fin", n |-> n \div GCD(n, d), d |-> d \div GCD(n, d)]
Inf == [kind |-> "inf", n |-> 0, d |-> 0]
NaN == [kind |-> "nan", n |-> 0, d |-> 0]
Zero == [kind |-> "fin", n |-> 0, d |-> 1]

\* num/den for naturals num, den, as numpy divides: x/0 is inf, 0/0 is nan
Div(num, den) ==
    IF den = 0 THEN (IF num = 0 THEN NaN ELSE Inf) ELSE Fin(num, den)

\* s[:m] of Python, m possibly negative
PySliceTo(s, m) ==
    IF m >= 0 THEN SubSeq(s, 1, Min(m, Len(s)))
              ELSE SubSeq(s, 1, Max(0, Len(s) + m))

\* length of the slice a:b of an axis of length n (0 <= a, 0 <= b)
PySliceLen(a, b, n) == Max(0, Min(b, n) - Min(a, n))

\* numpy assignment target[...] = src along one axis: the lengths agree, or
\* src has length 1 and is broadcast; anything else raises ValueError
CanAssign(tgtLen, srcLen) == srcLen = tgtLen \/ srcLen = 1
Broadcast(src, m) == IF Len(src) = 1 THEN src[1] ELSE src[m]

\* np.zeros((n, n, lmax))
Idx(n, lm) == (0..(n-1)) \X (0..(n-1)) \X (0..(lm-1))
zeros(n, lm) == [x \in Idx(n, lm) |-> Zero]

\* the symmetrizer: the diagonal and the upper triangle are kept, the lower
\* triangle is set from the upper triangle
fill_sym_mat(mat, n) ==
    [x \in (0..(n-1)) \X (0..(n-1)) |->
        IF x[1] > x[2] THEN mat[<<x[2], x[1]>>] ELSE mat[x]]

\* mutant: the symmetrised slice is computed but not stored back
SymSliceNotStored(tensor, n, m) == tensor

\* tensor[:,:,m] = fill_sym_mat(tensor[:,:,m])
SymSlice(tensor, n, m) ==
    LET slice == [x \in (0..(n-1)) \X (0..(n-1)) |-> tensor[<<x[1], x[2], m>>]]
        full == fill_sym_mat(slice, n)
    IN [x \in DOMAIN tensor |->
           IF x[3] = m THEN full[<<x[1], x[2]>>] ELSE tensor[x]]

\* ------------------------------------------------------------------ files
\* Names are 1..n; a directory holds one file per pair, all with the same
\* number of rows and the same first multipole l0, and contents that differ
\* from pair to pair and from row to row.
Names(n) == [x \in 1..n |-> x]
Dirs == [rows : 1..MaxRows, l0 : 0..MaxL0, seed : 0..MaxSeed]

\* so_spectra.read_ps(".../mean_{ar1}x{ar2}_{survey}_noise.dat")
read_ps(dir, ar1, ar2) ==
    [l  |-> [r \in 1..dir.rows |-> dir.l0 + r - 1],
     TT |-> [r \in 1..dir.rows |-> (dir.seed + ar1 + 2*ar2 + r) % 3],
     EE |-> [r \in 1..dir.rows |-> (dir.seed + 2*ar1 + ar2 + r) % 3],
     BB |-> [r \in 1..dir.rows |-> (dir.seed + ar1 + ar2 + 2*r) % 2]]

\* np.loadtxt(".../fg_{freq1}x{freq2}_TT.dat", unpack=True)
loadtxt(dir, freq1, freq2) ==
    [l      |-> [r \in 1..dir.rows |-> dir.l0 + r - 1],
     fl_all |-> [r \in 1..dir.rows |-> (dir.seed + freq1 + 2*freq2 + r) % 3]]

Unbound == [bound |-> FALSE, v |-> << >>]
Bound(s) == [bound |-> TRUE, v |-> s]

\* position after (a, b) in the nested enumerate loops over n items; a = n: over
NextC1(a, b, n) == IF b + 1 < n THEN a ELSE a + 1
NextC2(a, b, n) == IF b + 1 < n THEN b + 1 ELSE 0

\* -------------------------------------------- get_noise_matrix_spin0and2
NoiseInit ==
    /\ call = "noise"
    /\ arrays \in {Names(n) : n \in 0..MaxArrays}
    /\ lmax \in 0..MaxLmax
    /\ nsplits \in 1..MaxSplits
    /\ noise_dir \in Dirs
    /\ nl_array_t = zeros(Len(arrays), lmax)
    /\ nl_array_pol = zeros(Len(arrays), lmax)
    /\ c1 = 0 /\ c2 = 0 /\ i = 0
    /\ l = Unbound
    /\ pc = IF Len(arrays) = 0 THEN "sym" ELSE "pairs"
    /\ all_freqs = << >> /\ fg_dir = [rows |-> 1, l0 |-> 0, seed |-> 0]
    /\ fl_array = << >>
    /\ n_splits = 0 /\ ncomp = 0 /\ k = 0 /\ nlms = << >> /\ draws = << >>

NoiseFrame == UNCHANGED <<call, arrays, lmax, nsplits, noise_dir, all_freqs, fg_dir,
                          fl_array, n_splits, ncomp, k, nlms, draws>>

NoiseAdvance ==
    /\ c1' = NextC1(c1, c2, Len(arrays))
    /\ c2' = NextC2(c1, c2, Len(arrays))
    /\ pc' = IF NextC1(c1, c2, Len(arrays)) >= Len(arrays) THEN "sym" ELSE "pairs"
    /\ i' = 0

\* line 41: if c1>c2 : continue
NoiseSkip ==
    /\ call = "noise"
    /\ pc = "pairs" /\ c1 > c2
    /\ NoiseAdvance
    /\ UNCHANGED <<l, nl_array_t, nl_array_pol>>
    /\ NoiseFrame

\* mutant: the factor nsplits is left out
NoiseRescaleNoSplits(num, den, ll) ==
    [m \in 1..Len(ll) |-> Div(num[m] * 2, den * ll[m] * (ll[m] + 1))]

\* the rescaled row (lines 49 and 50): spectrum * nsplits * 2 * pi / (l * (l + 1)),
\* the spectrum given as num/den
NoiseRescale(num, den, ll) ==
    [m \in 1..Len(ll) |-> Div(num[m] * nsplits * 2, den * ll[m] * (ll[m] + 1))]

\* lines 43-50 for one pair c1 <= c2
NoisePair ==
    /\ call = "noise"
    /\ pc = "pairs" /\ c1 <= c2
    /\ LET f == read_ps(noise_dir, arrays[c1 + 1], arrays[c2 + 1])
           nl_t == PySliceTo(f.TT, lmax)
           ee == PySliceTo(f.EE, lmax)
           bb == PySliceTo(f.BB, lmax)
           nl_pol2 == [m \in 1..Len(ee) |-> ee[m] + bb[m]]   \* twice nl_pol
           ll == PySliceTo(f.l, lmax)
           row_t == NoiseRescale(nl_t, 1, ll)
           row_pol == NoiseRescale(nl_pol2, 2, ll)
       IN /\ l' = Bound(ll)
          /\ IF CanAssign(lmax, Len(ll))
             THEN /\ nl_array_t' = [x \in DOMAIN nl_array_t |->
                        IF x[1] = c1 /\ x[2] = c2
                        THEN Broadcast(row_t, x[3] + 1) ELSE nl_array_t[x]]
                  /\ nl_array_pol' = [x \in DOMAIN nl_array_pol |->
                        IF x[1] = c1 /\ x[2] = c2
                        THEN Broadcast(row_pol, x[3] + 1) ELSE nl_array_pol[x]]
                  /\ NoiseAdvance
             ELSE /\ pc' = "raised"      \* ValueError: could not broadcast
                  /\ UNCHANGED <<nl_array_t, nl_array_pol, c1, c2, i>>
    /\ NoiseFrame

\* lines 52-54, one multipole
NoiseSym ==
    /\ call = "noise"
    /\ pc = "sym" /\ i < lmax
    /\ nl_array_t' = SymSlice(nl_array_t, Len(arrays), i)
    /\ nl_array_pol' = SymSlice(nl_array_pol, Len(arrays), i)
    /\ i' = i + 1
    /\ UNCHANGED <<pc, c1, c2, l>>
    /\ NoiseFrame

\* line 56: return l, nl_array_t, nl_array_pol (l unbound when arrays is empty)
NoiseReturn ==
    /\ call = "noise"
    /\ pc = "sym" /\ i >= lmax
    /\ pc' = IF l.bound THEN "done" ELSE "raised"
    /\ UNCHANGED <<c1, c2, l, nl_array_t, nl_array_pol, i>>
    /\ NoiseFrame

\* ------------------------------------------------- get_foreground_matrix
FgInit ==
    /\ call = "fg"
    /\ all_freqs \in {Names(n) : n \in 0..MaxArrays}
    /\ lmax \in 0..MaxLmax
    /\ fg_dir \in Dirs
    /\ fl_array = zeros(Len(all_freqs), lmax)
    /\ c1 = 0 /\ c2 = 0 /\ i = 0
    /\ l = Unbound
    /\ pc = IF Len(all_freqs) = 0 THEN "sym" ELSE "pairs"
    /\ arrays = << >> /\ nsplits = 1 /\ noise_dir = [rows |-> 1, l0 |-> 0, seed |-> 0]
    /\ nl_array_t = << >> /\ nl_array_pol = << >>
    /\ n_splits = 0 /\ ncomp = 0 /\ k = 0 /\ nlms = << >> /\ draws = << >>

FgFrame == UNCHANGED <<call, arrays, lmax, nsplits, noise_dir, all_freqs, fg_dir,
                       nl_array_t, nl_array_pol, n_splits, ncomp, k, nlms, draws>>

FgAdvance ==
    /\ c1' = NextC1(c1, c2, Len(all_freqs))
    /\ c2' = NextC2(c1, c2, Len(all_freqs))
    /\ pc' = IF NextC1(c1, c2, Len(all_freqs)) >= Len(all_freqs) THEN "sym" ELSE "pairs"
    /\ i' = 0

\* line 85: if c1 > c2 : continue
FgSkip ==
    /\ call = "fg"
    /\ pc = "pairs" /\ c1 > c2
    /\ FgAdvance
    /\ UNCHANGED <<l, fl_array>>
    /\ FgFrame

\* line 88: fl_all *= 2 * np.pi / (l * (l + 1)), over the whole file
FgRescale(fl_all, ll) ==
    [m \in 1..Len(ll) |-> Div(fl_all[m] * 2, ll[m] * (ll[m] + 1))]

\* first multipole index the foreground values are written at (line 90)
FgStart == 2

\* mutant: the values are written from multipole index 0
FgPlaceFromZero(src) ==
    [x \in DOMAIN fl_array |->
        IF x[1] = c1 /\ x[2] = c2 /\ x[3] < lmax - FgStart
        THEN Broadcast(src, x[3] + 1) ELSE fl_array[x]]

\* line 90: fl_array[c1, c2, 2:lmax] = fl_all[:lmax-2]
FgPlace(src) ==
    [x \in DOMAIN fl_array |->
        IF x[1] = c1 /\ x[2] = c2 /\ x[3] >= FgStart
        THEN Broadcast(src, x[3] - FgStart + 1) ELSE fl_array[x]]

\* lines 87-90 for one pair c1 <= c2
FgPair ==
    /\ call = "fg"
    /\ pc = "pairs" /\ c1 <= c2
    /\ LET f == loadtxt(fg_dir, all_freqs[c1 + 1], all_freqs[c2 + 1])
           fl_all == FgRescale(f.fl_all, f.l)
           src == PySliceTo(fl_all, lmax - 2)
       IN /\ l' = Bound(f.l)
          /\ IF CanAssign(PySliceLen(FgStart, lmax, lmax), Len(src))
             THEN /\ fl_array' = FgPlace(src)
                  /\ FgAdvance
             ELSE /\ pc' = "raised"      \* ValueError: could not broadcast
                  /\ UNCHANGED <<fl_array, c1, c2, i>>
    /\ FgFrame

\* lines 92-93, one multipole
FgSym ==
    /\ call = "fg"
    /\ pc = "sym" /\ i < lmax
    /\ fl_array' = SymSlice(fl_array, Len(all_freqs), i)
    /\ i' = i + 1
    /\ UNCHANGED <<pc, c1, c2, l>>
    /\ FgFrame

\* line 95: return l, fl_array (l unbound when all_freqs is empty)
FgReturn ==
    /\ call = "fg"
    /\ pc = "sym" /\ i >= lmax
    /\ pc' = IF l.bound THEN "done" ELSE "raised"
    /\ UNCHANGED <<c1, c2, l, fl_array, i>>
    /\ FgFrame

\* --------------------------------------------------- generate_noise_alms
\* The tensors are opaque here: nl_array_t is "nl_array_t", nl_array_pol is
\* "nl_array_pol" or "None" (the default).  curvedsky.rand_alm(ps, lmax=lmax)
\* is a primitive of the pixell library: it reads the multipole axis of ps, so
\* a ps that is no array (None) makes it raise; any tensor gives one fresh
\* realization.  A realization is named by the index of its call in draws.
AlmsInit ==
    /\ call = "alms"
    /\ nl_array_t = "nl_array_t"
    /\ nl_array_pol \in {"None", "nl_array_pol"}
    /\ lmax \in 0..MaxLmax
    /\ n_splits \in 0..MaxSplits
    /\ ncomp \in 0..MaxNcomp
    /\ k = 0 /\ nlms = << >> /\ draws = << >>
    /\ pc = "splits"
    /\ arrays = << >> /\ nsplits = 1 /\ noise_dir = [rows |-> 1, l0 |-> 0, seed |-> 0]
    /\ all_freqs = << >> /\ fg_dir = [rows |-> 1, l0 |-> 0, seed |-> 0]
    /\ fl_array = << >> /\ c1 = 0 /\ c2 = 0 /\ i = 0 /\ l = Unbound

AlmsFrame == UNCHANGED <<call, arrays, lmax, nsplits, noise_dir, all_freqs, fg_dir,
                         c1, c2, l, nl_array_t, nl_array_pol, fl_array, i,
                         n_splits, ncomp>>

\* does curvedsky.rand_alm(ps, ...) return a realization
rand_alm_ok(ps) == ps # "None"

\* lines 125-127: one split of the ncomp == 1 branch
AlmsSplitT ==
    /\ call = "alms"
    /\ pc = "splits" /\ ncomp = 1 /\ k < n_splits
    /\ draws' = Append(draws, nl_array_t)
    /\ nlms' = nlms @@ (k :> Len(draws) + 1)
    /\ k' = k + 1
    /\ UNCHANGED pc
    /\ AlmsFrame

\* mutant: a missing polarization tensor falls back to the temperature tensor
SplitDrawsFallback ==
    LET pol == IF nl_array_pol = "None" THEN nl_array_t ELSE nl_array_pol
    IN << <<"T", nl_array_t>>, <<"E", pol>>, <<"B", pol>> >>

\* mutant: the third realization is stored under "E" again
SplitDrawsDupKey ==
    << <<"T", nl_array_t>>, <<"E", nl_array_pol>>, <<"E", nl_array_pol>> >>

\* the three draws of one split (lines 130-132): <<key, ps>> in program order
SplitDraws ==
    << <<"T", nl_array_t>>, <<"E", nl_array_pol>>, <<"B", nl_array_pol>> >>

\* number of draws of a split that return before one raises
RECURSIVE Completed(_, _)
Completed(ds, m) ==
    IF m > Len(ds) THEN Len(ds)
    ELSE IF rand_alm_ok(ds[m][2]) THEN Completed(ds, m + 1) ELSE m - 1

\* mutant: the "B" entry reuses the realization drawn for "E"
AlmsSplitReuse ==
    /\ call = "alms"
    /\ pc = "splits" /\ ncomp # 1 /\ k < n_splits
    /\ IF rand_alm_ok(nl_array_pol)
       THEN /\ draws' = draws \o <<nl_array_t, nl_array_pol>>
            /\ nlms' = nlms @@ (<<"T", k>> :> Len(draws) + 1)
                            @@ (<<"E", k>> :> Len(draws) + 2)
                            @@ (<<"B", k>> :> Len(draws) + 2)
            /\ k' = k + 1 /\ UNCHANGED pc
       ELSE /\ draws' = Append(draws, nl_array_t)
            /\ nlms' = nlms @@ (<<"T", k>> :> Len(draws) + 1)
            /\ pc' = "raised" /\ UNCHANGED k
    /\ AlmsFrame

\* mutant: a component count other than 1 and 3 is rejected
AlmsSplitRejecting ==
    /\ call = "alms"
    /\ pc = "splits" /\ ncomp # 1 /\ k < n_splits
    /\ IF ncomp = 3 /\ rand_alm_ok(nl_array_pol)
       THEN /\ draws' = draws \o <<nl_array_t, nl_array_pol, nl_array_pol>>
            /\ nlms' = nlms @@ (<<"T", k>> :> Len(draws) + 1)
                            @@ (<<"E", k>> :> Len(draws) + 2)
                            @@ (<<"B", k>> :> Len(draws) + 3)
            /\ k' = k + 1 /\ UNCHANGED pc
       ELSE /\ pc' = "raised" /\ UNCHANGED <<k, draws, nlms>>
    /\ AlmsFrame

\* lines 128-132: one split of the else branch
AlmsSplitTEB ==
    /\ call = "alms"
    /\ pc = "splits" /\ ncomp # 1 /\ k < n_splits
    /\ LET ds == SplitDraws
           done == Completed(ds, 1)
       IN /\ draws' = draws \o [m \in 1..done |-> ds[m][2]]
          /\ nlms' = nlms @@ [key \in {<<ds[m][1], k>> : m \in 1..done} |->
                                 Len(draws) + (CHOOSE m \in 1..done : ds[m][1] = key[1])]
          /\ IF done = Len(ds)
             THEN k' = k + 1 /\ UNCHANGED pc
             ELSE pc' = "raised" /\ UNCHANGED k
    /\ AlmsFrame

\* line 134: return nlms
AlmsReturn ==
    /\ call = "alms"
    /\ pc = "splits" /\ k >= n_splits
    /\ pc' = "done"
    /\ UNCHANGED <<k, nlms, draws>>
    /\ AlmsFrame

\* ------------------------------------------------------------ the program
Init == NoiseInit \/ FgInit \/ AlmsInit

Next ==
    \/ NoiseSkip \/ NoisePair \/ NoiseSym \/ NoiseReturn
    \/ FgSkip \/ FgPair \/ FgSym \/ FgReturn
    \/ AlmsSplitT \/ AlmsSplitTEB \/ AlmsReturn

Spec == Init /\ [][Next]_vars

\* ================================================================ claims
Returned(fn) == call = fn /\ pc = "done"
Raised(fn) == call = fn /\ pc = "raised"

Symmetric(tensor, n) ==
    /\ DOMAIN tensor = Idx(n, lmax)
    /\ \A x \in Idx(n, lmax) : tensor[x] = tensor[<<x[2], x[1], x[3]>>]

IsQuotient(v, num, den) ==
    IF den = 0 THEN v.kind # "fin"
               ELSE v.kind = "fin" /\ v.d > 0 /\ v.n * den = num * v.d

\* C2: in a returned noise tensor, for every pair i <= j and every index k below
\* lmax that the file has a row for, nl_array_t[i,j,k] is TT[k]*nsplits*2*pi/(l[k]*(l[k]+1))
\* and nl_array_pol[i,j,k] is ((EE[k]+BB[k])/2)*nsplits*2*pi/(l[k]*(l[k]+1)), the
\* columns being those of the file of the pair (arrays[i], arrays[j]).
C2_NoiseEntries ==
    Returned("noise") =>
      \A x \in Idx(Len(arrays), lmax) :
        (x[1] <= x[2] /\ x[3] < noise_dir.rows) =>
          LET f == read_ps(noise_dir, arrays[x[1] + 1], arrays[x[2] + 1])
              r == x[3] + 1
              ll == f.l[r] * (f.l[r] + 1)
          IN /\ IsQuotient(nl_array_t[x], f.TT[r] * nsplits * 2, ll)
             /\ IsQuotient(nl_array_pol[x], (f.EE[r] + f.BB[r]) * nsplits * 2, 2 * ll)

\* two arrays, two splits, a file at least as long as lmax, non-zero finite entries
C2_Witness ==
    /\ Returned("noise") /\ Len(arrays) = 2 /\ lmax >= 2 /\ nsplits = 2
    /\ noise_dir.rows >= lmax
    /\ nl_array_t[<<0, 1, 1>>].kind = "fin" /\ nl_array_t[<<0, 1, 1>>].n > 0
    /\ nl_array_pol[<<0, 0, 1>>].kind = "fin" /\ nl_array_pol[<<0, 0, 1>>].n > 0

\* C3: in every foreground tensor, at every step of the call and in the tensor
\* returned, the entries at multipole indices 0 and 1 are zero for every pair.
C3_FgZeroFill ==
    call = "fg" => \A x \in DOMAIN fl_array : x[3] < 2 => fl_array[x] = Zero

\* a returned foreground tensor with values placed, read from files whose first
\* rows are not zero
C3_Witness ==
    /\ Returned("fg") /\ Len(all_freqs) = 2 /\ lmax >= 3
    /\ fl_array[<<0, 1, 2>>] # Zero /\ fl_array[<<1, 0, 2>>] # Zero
    /\ fg_dir.rows >= 2
    /\ loadtxt(fg_dir, 1, 2).fl_all[1] # 0 /\ loadtxt(fg_dir, 1, 2).fl_all[2] # 0

TEBKeys == {"T", "E", "B"} \X (0..(n_splits - 1))

\* C5: the key set of the returned dictionary is exactly 0..n_splits-1 for ncomp == 1
\* (n_splits keys) and exactly {"T","E","B"} x 0..n_splits-1 for ncomp == 3
\* (3*n_splits keys), for every n_splits >= 0.
C5_KeySet ==
    Returned("alms") =>
        /\ ncomp = 1 => (DOMAIN nlms = 0..(n_splits - 1)
                         /\ Cardinality(DOMAIN nlms) = n_splits)
        /\ ncomp = 3 => (DOMAIN nlms = TEBKeys
                         /\ Cardinality(DOMAIN nlms) = 3 * n_splits)

\* a returned dictionary of the three-component branch with several splits
C5_Witness ==
    /\ Returned("alms") /\ ncomp = 3 /\ n_splits >= 2
    /\ <<"B", n_splits - 1>> \in DOMAIN nlms

Injective(f) == \A a, b \in DOMAIN f : a # b => f[a] # f[b]

\* C8: with ncomp == 1 every draw is from nl_array_t (nl_array_pol is never passed
\* to the primitive) and a returned call made exactly n_splits draws; with
\* ncomp == 3 a returned call made exactly 3*n_splits draws, ("T",k) is a draw from
\* nl_array_t, ("E",k) and ("B",k) are draws from nl_array_pol; no two keys hold
\* the same draw.
C8_SeparateDraws ==
    call = "alms" =>
        /\ ncomp = 1 => \A m \in 1..Len(draws) : draws[m] = nl_array_t
        /\ (pc = "done" /\ ncomp = 1) =>
              /\ Len(draws) = n_splits
              /\ Injective(nlms)
              /\ \A key \in DOMAIN nlms : nlms[key] \in 1..Len(draws)
        /\ (pc = "done" /\ ncomp = 3) =>
              /\ Len(draws) = 3 * n_splits
              /\ Injective(nlms)
              /\ \A key \in DOMAIN nlms :
                    /\ nlms[key] \in 1..Len(draws)
                    /\ draws[nlms[key]] =
                          (IF key[1] = "T" THEN nl_array_t ELSE nl_array_pol)

\* a returned three-component dictionary whose "E" and "B" entries of the last
\* split are different draws from the polarization tensor
C8_Witness ==
    /\ Returned("alms") /\ ncomp = 3 /\ n_splits >= 2 /\ nl_array_pol = "nl_array_pol"
    /\ nlms[<<"E", n_splits - 1>>] # nlms[<<"B", n_splits - 1>>]
    /\ draws[nlms[<<"B", n_splits - 1>>]] = "nl_array_pol"

\* C10: no component count is rejected: with a polarization tensor given the call
\* never raises, and for every ncomp other than 1 the returned dictionary has
\* exactly the keys ("T",k), ("E",k), ("B",k); only ncomp == 1 gives plain indices.
C10_AnyNcomp ==
    call = "alms" =>
        /\ nl_array_pol # "None" => pc # "raised"
        /\ (pc = "done" /\ ncomp # 1) => DOMAIN nlms = TEBKeys
        /\ (pc = "done" /\ ncomp = 1) => DOMAIN nlms = 0..(n_splits - 1)

\* a returned dictionary for a component count that is neither 1 nor 3
C10_Witness ==
    /\ Returned("alms") /\ ncomp \notin {1, 3} /\ n_splits >= 1
    /\ DOMAIN nlms = TEBKeys

\* C6: a returned noise tensor holds no infinite and no undefined value, also
\* when the multipole column of the files contains l = 0 within its first lmax rows.
C6_NoSingularValue ==
    Returned("noise") =>
        \A x \in DOMAIN nl_array_t :
            nl_array_t[x].kind = "fin" /\ nl_array_pol[x].kind = "fin"

\* C7: for files longer than lmax, the axis returned by get_noise_matrix_spin0and2
\* is the first lmax multipoles of the file and is as long as the tensor's multipole
\* dimension; the axis returned by either assembler, for files that start at the
\* multipole of its convention (0 for noise, 2 for foreground) and lmax >= 2,
\* holds no multipole >= lmax.
C7_AxisTruncated ==
    /\ (Returned("noise") /\ noise_dir.rows > lmax) =>
          /\ l.v = SubSeq(read_ps(noise_dir, 1, 1).l, 1, lmax)
          /\ noise_dir.l0 = 0 => \A m \in 1..Len(l.v) : l.v[m] < lmax
    /\ (Returned("fg") /\ lmax >= FgStart /\ fg_dir.rows > lmax /\ fg_dir.l0 = FgStart) =>
          \A m \in 1..Len(l.v) : l.v[m] < lmax

\* the part of C7 about get_noise_matrix_spin0and2 alone
C7_NoiseAxis ==
    (Returned("noise") /\ noise_dir.rows > lmax) =>
          /\ l.v = SubSeq(read_ps(noise_dir, 1, 1).l, 1, lmax)
          /\ noise_dir.l0 = 0 => \A m \in 1..Len(l.v) : l.v[m] < lmax

\* the placement of C9 in a returned foreground tensor
FgEntries ==
    Returned("fg") =>
      \A x \in Idx(Len(all_freqs), lmax) :
        (x[1] <= x[2] /\ x[3] >= 2 /\ x[3] - 2 < fg_dir.rows) =>
          LET f == loadtxt(fg_dir, all_freqs[x[1] + 1], all_freqs[x[2] + 1])
              r == x[3] - 2 + 1
          IN IsQuotient(fl_array[x], f.fl_all[r] * 2, f.l[r] * (f.l[r] + 1))

\* C9: for every lmax >= 0 and every file with at least lmax-2 rows the call of
\* get_foreground_matrix does not fail on the placement, and in the returned
\* tensor fl_array[i,j,k] = fl_all[k-2]*2*pi/(l[k-2]*(l[k-2]+1)) for i <= j, 2 <= k < lmax.
C9_FgPlacement ==
    /\ (call = "fg" /\ Len(all_freqs) >= 1 /\ fg_dir.rows >= lmax - 2) => pc # "raised"
    /\ FgEntries

====
